---------------------------- MODULE Spec2Model ----------------------------
(***************************************************************************)
(* Model of esp32-simon-game.ino: the two FreeRTOS tasks (TaskButtons, the *)
(* debouncing producer, and TaskGame, the menu / game state machine), the  *)
(* button queue between them, and the per-profile record kept in NVS       *)
(* through Preferences.                                                    *)
(*                                                                         *)
(* TaskGame is cut into one action per stretch of code that holds at most  *)
(* one queue operation; every vTaskDelay lies at the border of an action,  *)
(* so TaskButtons can enqueue wherever the code sleeps.                    *)
(***************************************************************************)
EXTENDS Integers, Sequences, FiniteSets, TLC

(***************************************************************************)
(* Program constants and model bounds                                      *)
(***************************************************************************)
\* #define NUM_BTNS 4
NUM_BTNS == 4

\* const int MAX_LEVEL = 32, scaled down: the pattern has MAX_LEVEL entries.
MAX_LEVEL == 2

\* xQueueCreate(10, sizeof(int)), scaled down: capacity of buttonQueue.
QUEUE_LENGTH == 2

\* rtc.now().unixtime() returns a value in 1..MaxTime.
MaxTime == 1

\* The player holds at most MaxHeld buttons down at the same time.
MaxHeld == 1

\* digitalRead levels (INPUT_PULLUP: LOW = pressed)
LOW == 0
HIGH == 1

\* prefs.getInt / getULong on a key that was never put
NoKey == -1

\* Profile ids: the local profile and one RFID tag (uidToString output)
Ids == {"DEFAULT", "F9771F03"}
Uids == Ids \ {"DEFAULT"}

Btns == 0 .. (NUM_BTNS - 1)
Times == 1 .. MaxTime

VARIABLES
  pc,             \* position of TaskGame
  currentPlayer,  \* String currentPlayer
  highScore,      \* int highScore
  highScoreTime,  \* uint32_t highScoreTime
  prefsHigh,      \* NVS keys "high_<id>"  (NoKey: absent)
  prefsTime,      \* NVS keys "time_<id>"  (NoKey: absent)
  pattern,        \* int pattern[MAX_LEVEL]
  level,          \* TaskGame local: level
  idx,            \* TaskGame local: i of the readback loop
  gameOver,       \* TaskGame local: gameOver
  finalScore,     \* TaskGame local: finalScore
  oldHigh,        \* TaskGame local: oldHigh
  newHighShown,   \* the "NEW HIGH SCORE!" screen was shown for this session
  buttonQueue,    \* FreeRTOS queue TaskButtons -> TaskGame
  lastState,      \* TaskButtons local: lastState[NUM_BTNS]
  loadedBest,     \* history: highScore as set by the last loadPlayerProfile
  gameOverSave,   \* history: arguments of this session's game-over save, or <<>>
  lastDone,       \* history: the level last reproduced in full in this session
  nStale,         \* history: queued events enqueued before the last menu boundary
  lastOp          \* history: the last operation TaskGame performed

vars == <<pc, currentPlayer, highScore, highScoreTime, prefsHigh, prefsTime,
          pattern, level, idx, gameOver, finalScore, oldHigh, newHighShown,
          buttonQueue, lastState, loadedBest, gameOverSave, lastDone,
          nStale, lastOp>>

profileVars == <<currentPlayer, highScore, highScoreTime>>
storeVars == <<prefsHigh, prefsTime>>
sessionVars == <<level, idx, gameOver, finalScore, oldHigh, newHighShown,
                 gameOverSave, lastDone>>

(***************************************************************************)
(* Preferences (NVS) and the profile helpers                               *)
(***************************************************************************)
\* variant: the default value is not applied to a missing key
getInt_NoDefault(prefs, id, def) == prefs[id]

\* prefs.getInt(key, defaultValue) / prefs.getULong(key, defaultValue)
getInt(prefs, id, def) == IF prefs[id] = NoKey THEN def ELSE prefs[id]

\* variant: the load sets the active id and leaves the globals as they are
loadPlayerProfile_IdOnly(id) ==
  /\ currentPlayer' = id
  /\ UNCHANGED <<highScore, highScoreTime>>

\* loadPlayerProfile(id)
loadPlayerProfile(id) ==
  /\ currentPlayer' = id
  /\ highScore' = getInt(prefsHigh, id, 0)
  /\ highScoreTime' = getInt(prefsTime, id, 0)

\* variant: the record is always written under the local profile's keys
savePlayerProfile_LocalKeys(id, score, time) ==
  /\ prefsHigh' = [prefsHigh EXCEPT !["DEFAULT"] = score]
  /\ prefsTime' = [prefsTime EXCEPT !["DEFAULT"] = time]

\* savePlayerProfile(id, score, time)
savePlayerProfile(id, score, time) ==
  /\ prefsHigh' = [prefsHigh EXCEPT ![id] = score]
  /\ prefsTime' = [prefsTime EXCEPT ![id] = time]

(***************************************************************************)
(* The FreeRTOS queue                                                      *)
(***************************************************************************)
\* variant: on a full queue the oldest event makes room for the new one
xQueueSend_Overwrite(q, item) ==
  IF Len(q) < QUEUE_LENGTH THEN Append(q, item) ELSE Append(Tail(q), item)

\* xQueueSend(buttonQueue, &i, 0): non-blocking, the item is dropped when full
xQueueSend(q, item) == IF Len(q) < QUEUE_LENGTH THEN Append(q, item) ELSE q

\* xQueueReset(buttonQueue)
xQueueReset(q) == << >>

Max(a, b) == IF a > b THEN a ELSE b

\* a receive takes the head; the history count of stale events follows it
Receive ==
  /\ buttonQueue # << >>
  /\ buttonQueue' = Tail(buttonQueue)
  /\ nStale' = Max(nStale - 1, 0)

\* session locals outside their scope
NoSession ==
  /\ level' = 0
  /\ idx' = 0
  /\ gameOver' = FALSE
  /\ finalScore' = 0
  /\ oldHigh' = 0
  /\ newHighShown' = FALSE
  /\ gameOverSave' = << >>
  /\ lastDone' = 0

(***************************************************************************)
(* Initial state: after setup()                                            *)
(***************************************************************************)
\* What NVS can hold at boot: per id nothing, a cleared record, or a saved best
ValidRecord == {<<NoKey, NoKey>>, <<0, 0>>}
               \cup ((1 .. (MAX_LEVEL - 1)) \X Times)

Init ==
  /\ \E st \in [Ids -> ValidRecord] :
        /\ prefsHigh = [id \in Ids |-> st[id][1]]
        /\ prefsTime = [id \in Ids |-> st[id][2]]
  /\ pc = "MAIN_MENU"
  /\ currentPlayer = "DEFAULT"
  /\ highScore = getInt(prefsHigh, "DEFAULT", 0)
  /\ highScoreTime = getInt(prefsTime, "DEFAULT", 0)
  /\ pattern = [i \in 0 .. (MAX_LEVEL - 1) |-> 0]
  /\ level = 0
  /\ idx = 0
  /\ gameOver = FALSE
  /\ finalScore = 0
  /\ oldHigh = 0
  /\ newHighShown = FALSE
  /\ buttonQueue = << >>
  /\ lastState = [i \in Btns |-> HIGH]
  /\ loadedBest = highScore
  /\ gameOverSave = << >>
  /\ lastDone = 0
  /\ nStale = 0
  /\ lastOp = "setup"

(***************************************************************************)
(* TaskButtons                                                             *)
(***************************************************************************)
\* Buttons TaskButtons currently holds as pressed
Held == {j \in Btns : lastState[j] = LOW}

\* variant: an event is sent on every confirmed change, release included
ButtonScan_AnyEdge(i, r, c) ==
  IF r # lastState[i] /\ c = r
    THEN /\ buttonQueue' = xQueueSend(buttonQueue, i)
         /\ lastState' = [lastState EXCEPT ![i] = r]
    ELSE UNCHANGED <<buttonQueue, lastState>>

\* One pass of the for-loop body for button i: r and c are the two
\* digitalRead results around the 10 ms debounce delay.
ButtonScan(i, r, c) ==
  IF r # lastState[i] /\ c = r
    THEN /\ buttonQueue' = IF r = LOW /\ lastState[i] = HIGH
                             THEN xQueueSend(buttonQueue, i)
                             ELSE buttonQueue
         /\ lastState' = [lastState EXCEPT ![i] = r]
    ELSE UNCHANGED <<buttonQueue, lastState>>

\* variant: the scan loop counts in the game's level instead of a local i
TaskButtons_SharedCounter ==
  /\ \E i \in Btns, r \in {LOW, HIGH}, c \in {LOW, HIGH} :
        /\ (r = LOW /\ i \notin Held) => Cardinality(Held) < MaxHeld
        /\ ButtonScan(i, r, c)
        /\ level' = i
  /\ UNCHANGED <<pc, profileVars, storeVars, pattern, idx, gameOver,
                 finalScore, oldHigh, newHighShown, gameOverSave, lastDone,
                 loadedBest, nStale, lastOp>>

TaskButtons ==
  /\ \E i \in Btns, r \in {LOW, HIGH}, c \in {LOW, HIGH} :
        /\ (r = LOW /\ i \notin Held) => Cardinality(Held) < MaxHeld
        /\ ButtonScan(i, r, c)
  /\ UNCHANGED <<pc, profileVars, storeVars, pattern, sessionVars,
                 loadedBest, nStale, lastOp>>

(***************************************************************************)
(* TaskGame                                                                *)
(***************************************************************************)
\* MAIN_MENU: playMenuStinger(); xQueueReset(buttonQueue);
MainMenu ==
  /\ pc = "MAIN_MENU"
  /\ buttonQueue' = xQueueReset(buttonQueue)
  /\ nStale' = 0
  /\ pc' = "SELECT"
  /\ lastOp' = "menu"
  /\ UNCHANGED <<profileVars, storeVars, pattern, sessionVars, lastState, loadedBest>>

\* Profile selection loop, RFID path: a card is present and read
SelectCard ==
  /\ pc = "SELECT"
  /\ \E uid \in Uids : loadPlayerProfile(uid)
  /\ loadedBest' = highScore'
  /\ pc' = "PROFILE_SHOWN"
  /\ lastOp' = "card"
  /\ UNCHANGED <<storeVars, pattern, sessionVars, buttonQueue, lastState, nStale>>

\* variant: the poll takes the event but does not handle the local-profile
\* control
SelectPoll_NoLocal ==
  /\ pc = "SELECT"
  /\ IF buttonQueue = << >>
       THEN UNCHANGED <<buttonQueue, nStale, lastOp>>
       ELSE Receive /\ lastOp' = "poll"
  /\ UNCHANGED <<pc, profileVars, loadedBest, storeVars, pattern, sessionVars,
                 lastState>>

\* Profile selection loop, no card: xQueueReceive with the 60 ms timeout
SelectPoll ==
  /\ pc = "SELECT"
  /\ IF buttonQueue = << >>
       THEN UNCHANGED <<pc, profileVars, buttonQueue, nStale, loadedBest, lastOp>>
       ELSE /\ Receive
            /\ IF Head(buttonQueue) = 0
                 THEN /\ loadPlayerProfile("DEFAULT")
                      /\ loadedBest' = highScore'
                      /\ pc' = "PROFILE_SHOWN"
                      /\ lastOp' = "local"
                 ELSE /\ UNCHANGED <<pc, profileVars, loadedBest>>
                      /\ lastOp' = "poll"
  /\ UNCHANGED <<storeVars, pattern, sessionVars, lastState>>

\* The scan sound and the 1500 / 1200 ms profile screen are over:
\* control reaches the PLAYER_MENU label
EnterPlayerMenu ==
  /\ pc = "PROFILE_SHOWN"
  /\ pc' = "PLAYER_MENU"
  /\ nStale' = Len(buttonQueue)
  /\ lastOp' = "enter"
  /\ UNCHANGED <<profileVars, storeVars, pattern, sessionVars, buttonQueue,
                 lastState, loadedBest>>

\* variant: the clear resets the globals but is not persisted
ClearHighScore_MemoryOnly ==
  /\ highScore' = 0
  /\ highScoreTime' = 0
  /\ UNCHANGED <<currentPlayer, storeVars>>

\* Player menu, btn == 1: clear the high score of the current profile
ClearHighScore ==
  /\ highScore' = 0
  /\ highScoreTime' = 0
  /\ savePlayerProfile(currentPlayer, 0, 0)
  /\ UNCHANGED currentPlayer

\* PLAYER_MENU: blocking receive, then play / clear / ignore
PlayerMenu ==
  /\ pc = "PLAYER_MENU"
  /\ Receive
  /\ IF Head(buttonQueue) = 0
       THEN /\ pc' = "GAME_START"
            /\ lastOp' = "play"
            /\ UNCHANGED <<profileVars, storeVars>>
       ELSE IF Head(buttonQueue) = 1
         THEN /\ ClearHighScore
              /\ lastOp' = IF prefsHigh[currentPlayer] = NoKey
                             THEN "clear_unsaved" ELSE "clear"
              /\ UNCHANGED pc
         ELSE /\ lastOp' = "ignore"
              /\ UNCHANGED <<pc, profileVars, storeVars>>
  /\ UNCHANGED <<pattern, sessionVars, lastState, loadedBest>>

\* variant: the random value is reduced modulo NUM_BTNS + 1
GameStart_OffByOne ==
  /\ pc = "GAME_START"
  /\ pattern' \in [0 .. (MAX_LEVEL - 1) -> 0 .. NUM_BTNS]
  /\ level' = 1
  /\ idx' = 0
  /\ gameOver' = FALSE
  /\ pc' = "PLAYBACK"
  /\ lastOp' = "generate"
  /\ UNCHANGED <<profileVars, storeVars, finalScore, oldHigh, newHighShown,
                 gameOverSave, lastDone, buttonQueue, lastState, loadedBest,
                 nStale>>

\* Game start: pattern[i] = esp_random() % NUM_BTNS for all i; level = 1
GameStart ==
  /\ pc = "GAME_START"
  /\ pattern' \in [0 .. (MAX_LEVEL - 1) -> Btns]
  /\ level' = 1
  /\ idx' = 0
  /\ gameOver' = FALSE
  /\ pc' = "PLAYBACK"
  /\ lastOp' = "generate"
  /\ UNCHANGED <<profileVars, storeVars, finalScore, oldHigh, newHighShown,
                 gameOverSave, lastDone, buttonQueue, lastState, loadedBest,
                 nStale>>

\* variant: the queue is not reset between playback and readback
Playback_NoReset ==
  /\ pc = "PLAYBACK"
  /\ idx' = 0
  /\ pc' = "READBACK"
  /\ lastOp' = "playback"
  /\ UNCHANGED <<profileVars, storeVars, pattern, level, gameOver, finalScore,
                 oldHigh, newHighShown, gameOverSave, lastDone, lastState,
                 loadedBest, buttonQueue, nStale>>

\* Top of the game loop: playStep(pattern[i]) for i < level (no queue
\* access), then xQueueReset(buttonQueue) and the readback loop starts
Playback ==
  /\ pc = "PLAYBACK"
  /\ buttonQueue' = xQueueReset(buttonQueue)
  /\ nStale' = 0
  /\ idx' = 0
  /\ pc' = "READBACK"
  /\ lastOp' = "playback"
  /\ UNCHANGED <<profileVars, storeVars, pattern, level, gameOver, finalScore,
                 oldHigh, newHighShown, gameOverSave, lastDone, lastState,
                 loadedBest>>

\* variant: the cap is applied one level early
NextLevel_CapEarly(l) == IF l + 1 >= MAX_LEVEL THEN MAX_LEVEL - 1 ELSE l + 1

\* variant: no cap
NextLevel_NoCap(l) == l + 1

\* level++; if (level > MAX_LEVEL) level = MAX_LEVEL;
NextLevel(l) == IF l + 1 > MAX_LEVEL THEN MAX_LEVEL ELSE l + 1

\* if (btn != pattern[i])
Mismatch(btn, i) == btn # pattern[i]

\* variant: a mismatch sets gameOver but does not leave the readback loop
Readback_NoBreak ==
  /\ pc = "READBACK"
  /\ Receive
  /\ gameOver' = (gameOver \/ Mismatch(Head(buttonQueue), idx))
  /\ IF idx + 1 < level
       THEN /\ idx' = idx + 1
            /\ lastOp' = IF gameOver' THEN "mismatch" ELSE "match"
            /\ UNCHANGED <<pc, level, lastDone>>
       ELSE IF gameOver'
         THEN /\ pc' = "GAME_OVER"
              /\ lastOp' = "mismatch"
              /\ UNCHANGED <<level, idx, lastDone>>
         ELSE /\ level' = NextLevel(level)
              /\ lastDone' = level
              /\ idx' = 0
              /\ pc' = "PLAYBACK"
              /\ lastOp' = "level_done"
  /\ UNCHANGED <<profileVars, storeVars, pattern, finalScore, oldHigh,
                 newHighShown, gameOverSave, lastState, loadedBest>>

\* One pass of the readback loop: blocking receive, compare with pattern[i];
\* after the last pass of a level, the tail of the game loop
Readback ==
  /\ pc = "READBACK"
  /\ Receive
  /\ IF Mismatch(Head(buttonQueue), idx)
       THEN /\ gameOver' = TRUE
            /\ pc' = "GAME_OVER"
            /\ lastOp' = "mismatch"
            /\ UNCHANGED <<level, idx, lastDone>>
       ELSE IF idx + 1 < level
         THEN /\ idx' = idx + 1
              /\ lastOp' = "match"
              /\ UNCHANGED <<pc, level, gameOver, lastDone>>
         ELSE /\ level' = NextLevel(level)
              /\ lastDone' = level
              /\ idx' = 0
              /\ pc' = "PLAYBACK"
              /\ lastOp' = "level_done"
              /\ UNCHANGED gameOver
  /\ UNCHANGED <<profileVars, storeVars, pattern, finalScore, oldHigh,
                 newHighShown, gameOverSave, lastState, loadedBest>>

\* variant: the failed level itself is taken as the score
FinalScore_Level(l) == l

\* int finalScore = level - 1;
FinalScore(l) == l - 1

\* variant: a tie counts as a new high score
IsNewHigh_Tie(score, high) == score >= high

\* variant: any different score replaces the stored one
IsNewHigh_NotEqual(score, high) == score # high

\* if (finalScore > highScore)
IsNewHigh(score, high) == score > high

\* After the game loop: finalScore, oldHigh, high score handling
GameOver ==
  /\ pc = "GAME_OVER"
  /\ finalScore' = FinalScore(level)
  /\ oldHigh' = highScore
  /\ IF IsNewHigh(finalScore', highScore)
       THEN \E now \in Times :
              /\ highScore' = finalScore'
              /\ highScoreTime' = now
              /\ savePlayerProfile(currentPlayer, highScore', highScoreTime')
              /\ gameOverSave' = <<currentPlayer, highScore', highScoreTime'>>
              /\ UNCHANGED currentPlayer
       ELSE /\ gameOverSave' = << >>
            /\ UNCHANGED <<profileVars, storeVars>>
  /\ pc' = "GAME_OVER_UI"
  /\ lastOp' = "game_over"
  /\ UNCHANGED <<pattern, level, idx, gameOver, newHighShown, lastDone,
                 buttonQueue, lastState, loadedBest, nStale>>

\* variant: compares with highScore, which the update has already raised
ShowNewHigh_Updated(score, old) == score > highScore

\* if (finalScore > oldHigh)  -- "NEW HIGH SCORE!"
ShowNewHigh(score, old) == score > old

\* Game over UI: flash, jingle, the NEW HIGH SCORE screen, the high score
\* screen; control then reaches the post-game menu loop
GameOverUI ==
  /\ pc = "GAME_OVER_UI"
  /\ newHighShown' = ShowNewHigh(finalScore, oldHigh)
  /\ pc' = "POST_GAME"
  /\ nStale' = Len(buttonQueue)
  /\ lastOp' = "results"
  /\ UNCHANGED <<profileVars, storeVars, pattern, level, idx, gameOver,
                 finalScore, oldHigh, gameOverSave, lastDone, buttonQueue,
                 lastState, loadedBest>>

\* variant: the main-menu control is not handled in the post-game menu
PostGame_NoMainMenu ==
  /\ pc = "POST_GAME"
  /\ Receive
  /\ IF Head(buttonQueue) = 0
       THEN /\ pc' = "PLAYER_MENU"
            /\ lastOp' = "play_again"
            /\ NoSession
       ELSE /\ lastOp' = "ignore"
            /\ UNCHANGED <<pc, sessionVars>>
  /\ UNCHANGED <<profileVars, storeVars, pattern, lastState, loadedBest>>

\* variant: the two gotos are swapped
PostGame_Swapped ==
  /\ pc = "POST_GAME"
  /\ Receive
  /\ IF Head(buttonQueue) = 1
       THEN /\ pc' = "PLAYER_MENU"
            /\ lastOp' = "play_again"
            /\ NoSession
       ELSE IF Head(buttonQueue) = 0
         THEN /\ pc' = "MAIN_MENU"
              /\ lastOp' = "to_main"
              /\ NoSession
         ELSE /\ lastOp' = "ignore"
              /\ UNCHANGED <<pc, sessionVars>>
  /\ UNCHANGED <<profileVars, storeVars, pattern, lastState, loadedBest>>

\* Post-game menu: blocking receive; 0: goto PLAYER_MENU, 1: goto MAIN_MENU
PostGame ==
  /\ pc = "POST_GAME"
  /\ Receive
  /\ IF Head(buttonQueue) = 0
       THEN /\ pc' = "PLAYER_MENU"
            /\ lastOp' = "play_again"
            /\ NoSession
       ELSE IF Head(buttonQueue) = 1
         THEN /\ pc' = "MAIN_MENU"
              /\ lastOp' = "to_main"
              /\ NoSession
         ELSE /\ lastOp' = "ignore"
              /\ UNCHANGED <<pc, sessionVars>>
  /\ UNCHANGED <<profileVars, storeVars, pattern, lastState, loadedBest>>

TaskGame ==
  \/ MainMenu
  \/ SelectCard
  \/ SelectPoll
  \/ EnterPlayerMenu
  \/ PlayerMenu
  \/ GameStart
  \/ Playback
  \/ Readback
  \/ GameOver
  \/ GameOverUI
  \/ PostGame

Next == TaskButtons \/ TaskGame

Spec == Init /\ [][Next]_vars

(***************************************************************************)
(* Profile selection alone, with scheduling: from boot to the PLAYER_MENU  *)
(* label. TaskGame is the only task on its core and every wait of the      *)
(* selection loop is bounded (the 60 ms receive), so the loop keeps        *)
(* iterating; whether a card is read in an iteration is up to the player.  *)
(***************************************************************************)
\* The steps TaskGame takes without a card
SelectLoop == MainMenu \/ SelectPoll \/ EnterPlayerMenu

NextSelect == TaskButtons \/ SelectCard \/ SelectLoop

SpecSelect == Init /\ [][NextSelect]_vars /\ WF_vars(SelectLoop)


(***************************************************************************)
(* Power cycles. The ESP32 can lose power at any instruction; after the    *)
(* restart setup() runs again on what NVS holds. savePlayerProfile makes   *)
(* two separate Preferences calls, prefs.putInt and then prefs.putULong,   *)
(* so power can fail between them. The local profile is played here: no    *)
(* card is presented.                                                      *)
(***************************************************************************)
\* setup() after a restart, on the store as the step leaves it
Reboot ==
  /\ pc' = "MAIN_MENU"
  /\ currentPlayer' = "DEFAULT"
  /\ highScore' = getInt(prefsHigh', "DEFAULT", 0)
  /\ highScoreTime' = getInt(prefsTime', "DEFAULT", 0)
  /\ pattern' = [i \in 0 .. (MAX_LEVEL - 1) |-> 0]
  /\ NoSession
  /\ buttonQueue' = << >>
  /\ lastState' = [i \in Btns |-> HIGH]
  /\ loadedBest' = highScore'
  /\ nStale' = 0
  /\ lastOp' = "setup"

\* Power fails while no save is under way
PowerCycle ==
  /\ UNCHANGED storeVars
  /\ Reboot

\* savePlayerProfile(id, score, time) cut short after prefs.putInt
putIntOnly(id, score) ==
  /\ prefsHigh' = [prefsHigh EXCEPT ![id] = score]
  /\ prefsTime' = prefsTime

\* Power fails between the two puts of the reset's save
PowerLossInClear ==
  /\ pc = "PLAYER_MENU"
  /\ buttonQueue # << >>
  /\ Head(buttonQueue) = 1
  /\ putIntOnly(currentPlayer, 0)
  /\ Reboot

\* Power fails between the two puts of the game-over save
PowerLossInGameOver ==
  /\ pc = "GAME_OVER"
  /\ IsNewHigh(FinalScore(level), highScore)
  /\ putIntOnly(currentPlayer, FinalScore(level))
  /\ Reboot

\* TaskGame without a card
LocalGame ==
  \/ SelectLoop
  \/ PlayerMenu
  \/ GameStart
  \/ Playback
  \/ Readback
  \/ GameOver
  \/ GameOverUI
  \/ PostGame

NextPower ==
  \/ TaskButtons
  \/ LocalGame
  \/ PowerCycle
  \/ PowerLossInClear
  \/ PowerLossInGameOver

SpecPower == Init /\ [][NextPower]_vars

(***************************************************************************)
(* Type invariant                                                          *)
(***************************************************************************)
TypeOK ==
  /\ pc \in {"MAIN_MENU", "SELECT", "PROFILE_SHOWN", "PLAYER_MENU", "GAME_START",
             "PLAYBACK", "READBACK", "GAME_OVER", "GAME_OVER_UI", "POST_GAME"}
  /\ currentPlayer \in Ids
  /\ highScore \in 0 .. (MAX_LEVEL - 1)
  /\ highScoreTime \in 0 .. MaxTime
  /\ pattern \in [0 .. (MAX_LEVEL - 1) -> Btns]
  /\ level \in 0 .. MAX_LEVEL
  /\ idx \in 0 .. (MAX_LEVEL - 1)
  /\ Len(buttonQueue) <= QUEUE_LENGTH
  /\ nStale \in 0 .. Len(buttonQueue)

(***************************************************************************)
(* Properties                                                              *)
(***************************************************************************)
\* What loadPlayerProfile(id) would read from NVS now
Loaded(id) == <<getInt(prefsHigh, id, 0), getInt(prefsTime, id, 0)>>

\* TaskGame takes an event from the queue in this step (TaskButtons never
\* shortens the queue, and a reset is never done where a receive is)
Consumes(at) == pc = at /\ Len(buttonQueue') < Len(buttonQueue)

\* The step in which the player menu handles the reset control
ClearStep == Consumes("PLAYER_MENU") /\ Head(buttonQueue) = 1

\* The step in which the last event of level l's readback matches
CompletesLevel(l) ==
  /\ Consumes("READBACK")
  /\ level = l
  /\ idx = l - 1
  /\ Head(buttonQueue) = pattern[idx]

\* This session's game-over made a savePlayerProfile call
SavedAtGameOver == gameOverSave # << >>

\* C1: once TaskGame has entered the player menu from MAIN_MENU, or the
\* post-game menu after game over, the queue holds no event that was
\* enqueued before that entry.
C1_FlushInvariant == nStale = 0

\* C2 as stated: the game-over save happens iff finalScore is greater than
\* the best value read by the last loadPlayerProfile.
C2_SaveIffAboveLoaded ==
  pc = "GAME_OVER_UI" => (SavedAtGameOver <=> finalScore > loadedBest)

\* C2 amended: the game-over save happens iff finalScore is greater than the
\* active profile's best as it stands at game over (oldHigh: the loaded value
\* as changed since by a reset or by an earlier session's save), never on a
\* tie; without a save the stored best is still that value, with a save it
\* is finalScore.
C2_SaveIffAboveCurrent ==
  pc = "GAME_OVER_UI" =>
    /\ SavedAtGameOver <=> finalScore > oldHigh
    /\ SavedAtGameOver => gameOverSave[1] = currentPlayer
                          /\ Loaded(currentPlayer)[1] = finalScore
    /\ ~SavedAtGameOver => Loaded(currentPlayer)[1] = oldHigh

\* a save at game over although finalScore is not above the loaded value
C2_Witness ==
  pc = "GAME_OVER_UI" /\ SavedAtGameOver /\ finalScore <= loadedBest

\* C3: the NEW HIGH SCORE screen is shown iff finalScore > oldHigh, that is,
\* in exactly the sessions whose game-over wrote the store.
C3_SignalIffWrite ==
  pc = "POST_GAME" =>
    /\ newHighShown <=> finalScore > oldHigh
    /\ newHighShown <=> SavedAtGameOver
    /\ SavedAtGameOver =>
         /\ gameOverSave[2] = finalScore
         /\ gameOverSave[3] \in Times
         /\ Loaded(currentPlayer) = <<gameOverSave[2], gameOverSave[3]>>

\* stored best 0, finalScore 1: written and shown
C3_Witness ==
  /\ pc = "POST_GAME"
  /\ newHighShown
  /\ SavedAtGameOver
  /\ finalScore = oldHigh + 1
  /\ prefsHigh[currentPlayer] = finalScore

\* C4: after the first wrong input at position idx of level level, the
\* machine is at game over and finalScore = level - 1, whatever idx is.
C4_MismatchScore ==
  /\ pc = "GAME_OVER" => gameOver /\ level \in 1 .. MAX_LEVEL
                         /\ idx \in 0 .. (level - 1) /\ lastOp = "mismatch"
  /\ pc \in {"GAME_OVER_UI", "POST_GAME"} =>
       gameOver /\ idx \in 0 .. (level - 1) /\ finalScore = level - 1

\* pattern 2,0: level 1 passed, level 2 failed at index 1, finalScore 1
C4_Witness ==
  /\ pc = "GAME_OVER_UI"
  /\ pattern[0] = 2
  /\ pattern[1] = 0
  /\ level = 2
  /\ idx = 1
  /\ finalScore = 1

\* C5: at a level below MAX_LEVEL, when the last event of the readback
\* matches, the game goes on to the playback of the next level; and no step
\* of a running session writes the store.
C5_MatchAdvances ==
  /\ [][\A l \in 1 .. (MAX_LEVEL - 1) :
          CompletesLevel(l) => pc' = "PLAYBACK" /\ level' = l + 1
                               /\ ~gameOver']_vars
  /\ [][(pc \in {"GAME_START", "PLAYBACK", "READBACK"}) =>
          (prefsHigh' = prefsHigh /\ prefsTime' = prefsTime
           /\ gameOverSave' = << >>)]_vars

\* level 1 reproduced, level 2 about to be played back
C5_Witness ==
  pc = "PLAYBACK" /\ lastOp = "level_done" /\ lastDone = 1 /\ level = 2

\* C6 as stated: reproducing the whole pattern at MAX_LEVEL ends the
\* session at once, with finalScore = MAX_LEVEL.
C6_WinAtCap ==
  lastDone = MAX_LEVEL =>
    /\ pc \in {"GAME_OVER", "GAME_OVER_UI", "POST_GAME"}
    /\ pc \in {"GAME_OVER_UI", "POST_GAME"} => finalScore = MAX_LEVEL

\* C6 amended: reproducing the whole pattern at MAX_LEVEL does not end the
\* session: the level stays MAX_LEVEL and the same pattern is played back
\* again; a session ends only with a mismatch, so finalScore is at most
\* MAX_LEVEL - 1.
C6_CapReplays ==
  /\ [][CompletesLevel(MAX_LEVEL) =>
          /\ pc' = "PLAYBACK"
          /\ level' = MAX_LEVEL
          /\ ~gameOver'
          /\ pattern' = pattern]_vars
  /\ [](pc \in {"GAME_OVER_UI", "POST_GAME"} =>
          lastOp \in {"game_over", "results", "ignore"}
          /\ gameOver /\ finalScore <= MAX_LEVEL - 1)

\* the full pattern was reproduced and is about to be played back again
C6_Witness ==
  pc = "PLAYBACK" /\ lastOp = "level_done" /\ lastDone = MAX_LEVEL
  /\ level = MAX_LEVEL

\* C7: the reset control in the player menu sets the active profile's stored
\* best to 0 and its timestamp to 0 and stays in the player menu; a load of
\* an id that reads (0, 0) keeps doing so until a game-over save for it.
C7_ResetClears ==
  /\ [][ClearStep =>
          /\ prefsHigh'[currentPlayer] = 0
          /\ prefsTime'[currentPlayer] = 0
          /\ Loaded(currentPlayer)' = <<0, 0>>
          /\ highScore' = 0
          /\ highScoreTime' = 0
          /\ pc' = "PLAYER_MENU"
          /\ currentPlayer' = currentPlayer]_vars
  /\ [][\A id \in Ids :
          (Loaded(id) = <<0, 0>> /\ Loaded(id)' # <<0, 0>>) =>
             /\ pc = "GAME_OVER"
             /\ currentPlayer = id
             /\ SavedAtGameOver'
             /\ Loaded(id)'[1] > 0]_vars

\* a profile with a saved best has just been reset
C7_Witness ==
  /\ pc = "PLAYER_MENU"
  /\ lastOp = "clear"
  /\ loadedBest > 0
  /\ Loaded(currentPlayer) = <<0, 0>>

\* C8: a profile id that was never saved loads as (0, 0), and resetting it
\* changes nothing that can be observed: the loaded globals stay as they
\* are, and every id loads the same values after the reset as before it.
C8_ResetUnsavedNoop ==
  /\ [](lastOp \in {"card", "local"} /\ prefsHigh[currentPlayer] = NoKey
          => highScore = 0 /\ highScoreTime = 0)
  /\ [][ClearStep /\ prefsHigh[currentPlayer] = NoKey
                  /\ prefsTime[currentPlayer] = NoKey =>
          /\ \A id \in Ids : Loaded(id)' = Loaded(id)
          /\ UNCHANGED profileVars
          /\ pc' = pc]_vars

\* a never-saved tag profile has just been reset
C8_Witness ==
  /\ pc = "PLAYER_MENU"
  /\ lastOp = "clear_unsaved"
  /\ currentPlayer # "DEFAULT"
  /\ highScore = 0
  /\ highScoreTime = 0

\* C9: the stored best of every id never decreases, except in the step that
\* handles the reset control for that id, which makes it 0.
C9_BestMonotone ==
  [][\A id \in Ids :
       \/ Loaded(id)'[1] >= Loaded(id)[1]
       \/ ClearStep /\ currentPlayer = id /\ Loaded(id)'[1] = 0]_vars

\* a tag profile's stored best has just been raised at game over
C9_Witness ==
  /\ pc = "GAME_OVER_UI"
  /\ currentPlayer # "DEFAULT"
  /\ SavedAtGameOver
  /\ Loaded(currentPlayer)[1] > oldHigh
  /\ Loaded("DEFAULT")[1] > 0

\* C10 as stated: play-again keeps the active profile and leads to the
\* player menu; main-menu leads to MAIN_MENU and no longer holds the
\* previous player's profile.
C10_ReplayClearsProfile ==
  [][Consumes("POST_GAME") =>
       /\ Head(buttonQueue) = 0 => pc' = "PLAYER_MENU" /\ UNCHANGED profileVars
       /\ Head(buttonQueue) = 1 => pc' = "MAIN_MENU"
                                   /\ currentPlayer' # currentPlayer]_vars

\* C10 amended: play-again keeps the active profile and leads to the player
\* menu; main-menu leads to MAIN_MENU with the previous profile still held
\* in currentPlayer, highScore and highScoreTime: nothing clears it, the
\* next selection's loadPlayerProfile replaces it.
C10_ReplayKeepsProfile ==
  /\ [][Consumes("POST_GAME") =>
          /\ Head(buttonQueue) = 0 => pc' = "PLAYER_MENU"
                                      /\ UNCHANGED profileVars
          /\ Head(buttonQueue) = 1 => pc' = "MAIN_MENU"
                                      /\ UNCHANGED profileVars]_vars
  /\ [][((pc \in {"MAIN_MENU", "SELECT"}) /\ currentPlayer' # currentPlayer) =>
          pc' = "PROFILE_SHOWN"
          /\ <<highScore', highScoreTime'>> = Loaded(currentPlayer')]_vars

\* back in MAIN_MENU with the tag profile of the last session still held
C10_Witness ==
  /\ pc = "MAIN_MENU"
  /\ lastOp = "to_main"
  /\ currentPlayer # "DEFAULT"
  /\ highScore > 0

\* The states in which TaskGame waits for a button event
Waits == {"SELECT", "PLAYER_MENU", "READBACK", "POST_GAME"}

\* The state the machine is to be in after control b was taken at p
Target(p, b) ==
  CASE p = "SELECT" -> IF b = 0 THEN "PROFILE_SHOWN" ELSE "SELECT"
    [] p = "PLAYER_MENU" -> IF b = 0 THEN "GAME_START" ELSE "PLAYER_MENU"
    [] p = "READBACK" -> IF b # pattern[idx] THEN "GAME_OVER"
                         ELSE IF idx + 1 < level THEN "READBACK"
                         ELSE "PLAYBACK"
    [] p = "POST_GAME" -> IF b = 0 THEN "PLAYER_MENU"
                          ELSE IF b = 1 THEN "MAIN_MENU"
                          ELSE "POST_GAME"
    [] OTHER -> p

\* Control b has no meaning at p
Meaningless(p, b) ==
  \/ p = "SELECT" /\ b # 0
  \/ p \in {"PLAYER_MENU", "POST_GAME"} /\ b \notin {0, 1}

\* TaskGame takes the head of the queue in this step
TakesHead == TaskGame /\ buttonQueue # << >> /\ buttonQueue' = Tail(buttonQueue)

\* The controls that bring the machine closer to MAIN_MENU from p
Wanted(p) ==
  CASE p = "PLAYER_MENU" -> {0}
    [] p = "READBACK" -> {b \in Btns : b # pattern[idx]}
    [] p = "POST_GAME" -> {1}
    [] OTHER -> {}

\* TaskButtons steps needed before one of the controls in W is enqueued:
\* one when a control of W can be pressed now, two when a button has to be
\* released first
PressCost(W) ==
  IF \E b \in W : b \notin Held /\ Cardinality(Held) < MaxHeld THEN 1 ELSE 2

\* Position on the way SELECT, ..., POST_GAME, MAIN_MENU
PathPos(p) ==
  CASE p = "MAIN_MENU" -> 0
    [] p = "POST_GAME" -> 1
    [] p = "GAME_OVER_UI" -> 2
    [] p = "GAME_OVER" -> 3
    [] p = "READBACK" -> 4
    [] p = "PLAYBACK" -> 5
    [] p = "GAME_START" -> 6
    [] p = "PLAYER_MENU" -> 7
    [] p = "PROFILE_SHOWN" -> 8
    [] p = "SELECT" -> 9

\* A measure that some step decreases in every state but MAIN_MENU: with an
\* empty queue, or with just a wanted control in it, the position on the way
\* and the presses still to make; otherwise the events TaskGame has to take
\* out of the queue first.
Rank ==
  IF pc = "MAIN_MENU" THEN 0
  ELSE IF buttonQueue = << >>
    THEN 4 * PathPos(pc)
         + (IF Wanted(pc) # {} THEN PressCost(Wanted(pc)) ELSE 0)
  ELSE IF Len(buttonQueue) = 1 /\ Head(buttonQueue) \in Wanted(pc)
    THEN 4 * PathPos(pc)
  ELSE 100 + 10 * Len(buttonQueue) + PathPos(pc)

\* C11: the machine starts in MAIN_MENU; outside the waiting states TaskGame
\* can always step; in a waiting state every queued control is taken and
\* leads to the state defined for it, a control without meaning there
\* changing nothing but the queue; and from every state but MAIN_MENU some
\* step of the buttons or of the game brings MAIN_MENU closer, so that
\* nothing is a dead end and MAIN_MENU stays reachable.
C11_NoStuckState ==
  /\ lastOp = "setup" => pc = "MAIN_MENU"
  /\ pc \notin Waits => ENABLED <<TaskGame>>_vars
  /\ (pc \in Waits /\ buttonQueue # << >>) =>
       /\ ENABLED (TakesHead /\ pc' = Target(pc, Head(buttonQueue)))
       /\ ~ENABLED (TakesHead /\ pc' # Target(pc, Head(buttonQueue)))
       /\ Meaningless(pc, Head(buttonQueue)) =>
            ~ENABLED (TakesHead /\ ~UNCHANGED <<pc, profileVars, storeVars,
                                                pattern, sessionVars>>)
  /\ pc # "MAIN_MENU" =>
       \/ ENABLED (TaskGame /\ Rank' < Rank)
       \/ ENABLED (TaskButtons /\ Rank' < Rank)

\* the post-game menu has just ignored a control without meaning, with the
\* main-menu control queued behind it
C11_Witness ==
  /\ pc = "POST_GAME"
  /\ lastOp = "ignore"
  /\ buttonQueue = <<1>>
  /\ Rank = 4

\* Line i goes from released to pressed in this step of TaskButtons
Pressed(i) == lastState[i] = HIGH /\ lastState'[i] = LOW

\* Line i goes from pressed to released in this step of TaskButtons
Released(i) == lastState[i] = LOW /\ lastState'[i] = HIGH

\* C12: a confirmed press of line i makes exactly one xQueueSend of i; a
\* confirmed release sends nothing; the queue grows only by the index of a
\* line pressed in the same step, by one event, so that a line held down
\* gives no second event before it was released and pressed again.
C12_OneEventPerPress ==
  [][/\ \A i \in Btns :
          /\ Pressed(i) => buttonQueue' = xQueueSend(buttonQueue, i)
          /\ Released(i) => buttonQueue' = buttonQueue
     /\ Cardinality({i \in Btns : lastState'[i] # lastState[i]}) <= 1
     /\ Len(buttonQueue') > Len(buttonQueue) =>
          \E i \in Btns : Pressed(i) /\ buttonQueue' = Append(buttonQueue, i)
    ]_vars

\* button 3 was pressed during the readback and is still held: one event
C12_Witness ==
  /\ pc = "READBACK"
  /\ lastOp = "playback"
  /\ lastState[3] = LOW
  /\ buttonQueue = <<3>>

\* C13: the queue never holds more than QUEUE_LENGTH events (the scaled
\* capacity given to xQueueCreate); an event enters only at the tail, on a
\* confirmed press, while there is room; a press on a full queue completes
\* with the queue as it was; an event leaves only at the head, one at a
\* time, or with all others in a reset on entry to MAIN_MENU or after a
\* playback: events are received in the order sent, each at most once.
C13_BoundedFifo ==
  /\ [](Len(buttonQueue) <= QUEUE_LENGTH)
  /\ [][\/ buttonQueue' = buttonQueue
        \/ /\ Len(buttonQueue) < QUEUE_LENGTH
           /\ \E i \in Btns : Pressed(i) /\ buttonQueue' = Append(buttonQueue, i)
        \/ /\ pc \in Waits
           /\ buttonQueue # << >>
           /\ buttonQueue' = Tail(buttonQueue)
           /\ pc' = Target(pc, Head(buttonQueue))
           /\ lastState' = lastState
        \/ /\ pc \in {"MAIN_MENU", "PLAYBACK"}
           /\ buttonQueue' = << >>
           /\ lastState' = lastState]_vars
  /\ [][\A i \in Btns :
          (Pressed(i) /\ Len(buttonQueue) = QUEUE_LENGTH) =>
             buttonQueue' = buttonQueue /\ pc' = pc]_vars

\* the queue is full and the button now held is not its last event: the
\* press was dropped
C13_Witness ==
  /\ pc = "PLAYER_MENU"
  /\ Len(buttonQueue) = QUEUE_LENGTH
  /\ \E i \in Btns : Held = {i} /\ buttonQueue[Len(buttonQueue)] # i

\* C14: while a level is played back no event is taken from the queue (it
\* only grows at the tail); the step that ends the playback leaves the queue
\* empty, and the readback is entered by that step only: whatever was
\* enqueued during the playback is gone before the first receive of the
\* readback and is never compared with the pattern.
C14_PlaybackDrained ==
  /\ [][pc = "PLAYBACK" =>
          \/ /\ pc' = "PLAYBACK"
             /\ \/ buttonQueue' = buttonQueue
                \/ \E i \in Btns : buttonQueue' = Append(buttonQueue, i)
          \/ /\ pc' = "READBACK"
             /\ buttonQueue' = << >>
             /\ idx' = 0]_vars
  /\ [][(pc # "READBACK" /\ pc' = "READBACK") =>
          pc = "PLAYBACK" /\ buttonQueue' = << >>]_vars

\* level 2 has been played back; the button still held is not the one that
\* passed level 1, so it was pressed after it, during the playback, and its
\* event is not in the queue
C14_Witness ==
  /\ pc = "READBACK"
  /\ lastOp = "playback"
  /\ level = 2
  /\ lastDone = 1
  /\ buttonQueue = << >>
  /\ \E i \in Btns : Held = {i} /\ i # pattern[0]

\* C15: (a) when a card stays readable (the card path, open in every
\* iteration, is taken at some point), the selection ends, whatever buttons
\* are pressed meanwhile; (b) when the local-profile control is in the
\* queue, a profile is shown without any such assumption: a card is read,
\* or the control reaches the head and DEFAULT is loaded from the store;
\* and a shown profile is followed by the player menu.
C15_SelectionLive ==
  /\ WF_vars(SelectCard) => ((pc = "SELECT") ~> (pc = "PLAYER_MENU"))
  /\ (pc = "SELECT" /\ \E k \in 1 .. Len(buttonQueue) : buttonQueue[k] = 0)
       ~> (/\ pc = "PROFILE_SHOWN"
           /\ \/ lastOp = "card"
              \/ /\ lastOp = "local"
                 /\ currentPlayer = "DEFAULT"
                 /\ <<highScore, highScoreTime>> = Loaded("DEFAULT"))
  /\ (pc = "PROFILE_SHOWN") ~> (pc = "PLAYER_MENU")

\* the player menu was reached on the local path while another event had
\* arrived behind the local-profile control
C15_Witness ==
  /\ pc = "PLAYER_MENU"
  /\ lastOp = "enter"
  /\ currentPlayer = "DEFAULT"
  /\ buttonQueue # << >>
  /\ Head(buttonQueue) # 0

\* C16: a step in which TaskButtons records a change of a line or enqueues
\* an event leaves the position of TaskGame, the active profile, the store,
\* the pattern and the session locals as they are; and a step that changes
\* any of these leaves lastState as it is: the queue is the one variable
\* both tasks write.
C16_ButtonsFrame ==
  /\ [][(lastState' # lastState \/ Len(buttonQueue') > Len(buttonQueue)) =>
          UNCHANGED <<pc, profileVars, storeVars, pattern, sessionVars>>]_vars
  /\ [][(<<pc, profileVars, storeVars, pattern, sessionVars>>'
           # <<pc, profileVars, storeVars, pattern, sessionVars>>) =>
          /\ lastState' = lastState
          /\ Len(buttonQueue') <= Len(buttonQueue)]_vars

\* in the middle of the readback of level 2 of a tag profile with a stored
\* best, TaskButtons has enqueued a press of button 0
C16_Witness ==
  /\ pc = "READBACK"
  /\ level = 2
  /\ idx = 1
  /\ currentPlayer # "DEFAULT"
  /\ highScore = 1
  /\ lastState[0] = LOW
  /\ buttonQueue = <<0>>

\* TaskGame is inside a session: between the generation of the pattern and
\* the choice made in the post-game menu
InSession ==
  pc \in {"PLAYBACK", "READBACK", "GAME_OVER", "GAME_OVER_UI", "POST_GAME"}

\* C17: a session starts with level 1; inside a session the level is in
\* 1 .. MAX_LEVEL and changes only by +1, in the step that takes the last
\* matching event of the readback at that level; a step that takes a wrong
\* event leaves the level as it is.
C17_LevelSteps ==
  /\ [](InSession => level \in 1 .. MAX_LEVEL)
  /\ [][(pc = "GAME_START" /\ pc' # pc) => level' = 1]_vars
  /\ [][(InSession /\ InSession' /\ level' # level) =>
          /\ level' = level + 1
          /\ CompletesLevel(level)]_vars
  /\ [][(Consumes("READBACK") /\ Head(buttonQueue) # pattern[idx]) =>
          level' = level /\ pc' = "GAME_OVER"]_vars

\* level 1 was passed, the level rose to 2, and the second event of level 2
\* was wrong: the level is still 2
C17_Witness ==
  /\ pc = "GAME_OVER"
  /\ lastOp = "mismatch"
  /\ lastDone = 1
  /\ level = 2
  /\ idx = 1

\* C18: in the readback of a level, idx counts the events taken so far, all
\* of them matching: it is 0 after the playback and below the level; each
\* event taken is the next one compared; a matching one makes the count
\* idx + 1 and ends the readback when that is the level, a wrong one ends
\* it at once, as event idx + 1. The readback ends in no other way, and
\* does not go on with an empty queue. From the mismatch to the post-game
\* menu no event is taken.
C18_VerifyCounts ==
  /\ [](pc = "READBACK" =>
          /\ idx \in 0 .. (level - 1)
          /\ ~gameOver
          /\ lastOp = "playback" => idx = 0
          /\ buttonQueue = << >> => ~ENABLED <<TaskGame>>_vars)
  /\ [][Consumes("READBACK") =>
          IF Head(buttonQueue) = pattern[idx]
            THEN \/ idx + 1 < level /\ pc' = "READBACK" /\ idx' = idx + 1
                 \/ idx + 1 = level /\ pc' = "PLAYBACK"
            ELSE pc' = "GAME_OVER" /\ idx' = idx /\ gameOver']_vars
  /\ [][(pc = "READBACK" /\ pc' # "READBACK") => Consumes("READBACK")]_vars
  /\ [][(pc \in {"GAME_OVER", "GAME_OVER_UI"}) =>
          Len(buttonQueue') >= Len(buttonQueue)]_vars

\* the first event of level 2 was wrong: one event taken, and one that came
\* after it is left in the queue while the result is shown
C18_Witness ==
  /\ pc = "GAME_OVER_UI"
  /\ level = 2
  /\ idx = 0
  /\ buttonQueue # << >>

\* C20: the store changes only in the step that handles the reset control
\* in the player menu and in a game-over step that saves; such a step
\* changes no key of any id but the active one, and keeps the active id.
C20_WritesOnlyActive ==
  [][(storeVars' # storeVars) =>
       /\ ClearStep \/ (pc = "GAME_OVER" /\ SavedAtGameOver')
       /\ currentPlayer' = currentPlayer
       /\ \A id \in Ids \ {currentPlayer} :
             prefsHigh'[id] = prefsHigh[id] /\ prefsTime'[id] = prefsTime[id]
    ]_vars

\* the tag profile's record has just been reset while the local profile's
\* saved best is still in the store
C20_Witness ==
  /\ pc = "PLAYER_MENU"
  /\ lastOp = "clear"
  /\ currentPlayer # "DEFAULT"
  /\ prefsHigh[currentPlayer] = 0
  /\ prefsHigh["DEFAULT"] = 1
  /\ prefsTime["DEFAULT"] = 1

\* C19: at every point, a power cycle at any step included, what the store
\* gives for an id is what one savePlayerProfile call wrote, or the
\* defaults: (0, 0) for a record never saved or reset, or a best above 0
\* with the time of its save.
C19_SaveAtomic ==
  \A id \in Ids :
     Loaded(id) \in {<<0, 0>>} \cup ((1 .. (MAX_LEVEL - 1)) \X Times)

\* C21: in every state the globals highScore and highScoreTime are what the
\* store gives for currentPlayer, (0, 0) for an id never saved; and the
\* game-over step saves exactly when finalScore is above the stored best of
\* the active profile.
C21_MemoryMatchesStore ==
  /\ [](<<highScore, highScoreTime>> = Loaded(currentPlayer))
  /\ [][(pc = "GAME_OVER" /\ pc' # pc) =>
          (SavedAtGameOver' <=> finalScore' > Loaded(currentPlayer)[1])]_vars

\* a card with a saved best was read while the local profile has none: the
\* globals hold the tag's record
C21_Witness ==
  /\ pc = "PROFILE_SHOWN"
  /\ lastOp = "card"
  /\ highScore = 1
  /\ highScoreTime = 1
  /\ Loaded("DEFAULT") = <<0, 0>>

\* C22: every finalScore computed at game over is in 0 .. MAX_LEVEL - 1;
\* the best the store gives for any id stays in that range; and the game
\* loop is left, gameOver set, only by the step that takes a wrong event in
\* the readback.
C22_ScoreRange ==
  /\ []((pc \in {"GAME_OVER_UI", "POST_GAME"}) =>
          finalScore \in 0 .. (MAX_LEVEL - 1))
  /\ [](\A id \in Ids : Loaded(id)[1] \in 0 .. (MAX_LEVEL - 1))
  /\ [][((pc # "GAME_OVER" /\ pc' = "GAME_OVER") \/ (~gameOver /\ gameOver')) =>
          /\ Consumes("READBACK")
          /\ Head(buttonQueue) # pattern[idx]
          /\ gameOver'
          /\ pc' = "GAME_OVER"]_vars

\* the whole pattern was reproduced, then a wrong event ended the session:
\* the highest finalScore there is, saved as the tag profile's best
\* over a stored best of 0
C22_Witness ==
  /\ pc = "POST_GAME"
  /\ lastDone = MAX_LEVEL
  /\ finalScore = MAX_LEVEL - 1
  /\ oldHigh = 0
  /\ currentPlayer # "DEFAULT"
  /\ prefsHigh[currentPlayer] = MAX_LEVEL - 1

\* C23: pattern has the indices 0 .. MAX_LEVEL - 1 and every element of it
\* is a button index; the indices used by the playback (0 .. level - 1) and
\* by the readback (idx) are indices of pattern; every event in the queue,
\* hence every index received and used on ledPins and tonesHz, is a button
\* index; and lastState has the indices TaskButtons scans.
C23_InBounds ==
  /\ DOMAIN pattern = 0 .. (MAX_LEVEL - 1)
  /\ \A i \in DOMAIN pattern : pattern[i] \in 0 .. (NUM_BTNS - 1)
  /\ \A k \in 1 .. Len(buttonQueue) : buttonQueue[k] \in 0 .. (NUM_BTNS - 1)
  /\ (pc \in {"PLAYBACK", "READBACK"}) =>
       /\ level >= 1
       /\ 0 .. (level - 1) \subseteq DOMAIN pattern
  /\ pc = "READBACK" => idx \in 0 .. (level - 1)
  /\ DOMAIN lastState = 0 .. (NUM_BTNS - 1)

\* the last element of the pattern, holding the highest button index, is
\* about to be compared with a queued event of the highest index
C23_Witness ==
  /\ pc = "READBACK"
  /\ level = MAX_LEVEL
  /\ idx = MAX_LEVEL - 1
  /\ pattern[idx] = NUM_BTNS - 1
  /\ buttonQueue # << >>
  /\ Head(buttonQueue) = NUM_BTNS - 1

=============================================================================
